---- MODULE Spec2Model ----
(***************************************************************************)
(* gitype: the typing-progress state machine.                              *)
(*                                                                         *)
(* Line   (src/src/types/line.rs)   the per-line cursor                    *)
(* Typing (src/src/types/typing.rs) the run state machine                  *)
(*        BeforeStart / Running / Finish                                   *)
(* App    (src/src/app.rs)          the wrapper that holds the selected    *)
(*        time and forwards the events to Typing                           *)
(*                                                                         *)
(* A String is a sequence of one-character strings, an Option<T> is a      *)
(* sequence of length 0 (None) or 1 (Some), a Duration is a whole number   *)
(* of seconds (the code only builds them with Duration::from_secs) and an  *)
(* Instant is a reading of a monotonic clock in whole seconds.             *)
(*                                                                         *)
(* Specifications:                                                         *)
(*   Spec        the events of App / Typing on a constructed program       *)
(*   SelectSpec  the same with the selection of the duration (next_time,   *)
(*               prev_time), on shorter documents                          *)
(*   FairSpec    Spec under a driver that keeps applying ticks             *)
(*   TimeSpec    the selection of the duration on its own, for every       *)
(*               custom duration                                           *)
(*   LineSpec    a Line on its own: Line::new, then next() calls           *)
(*   DriverSpec  the loop of run_app (src/src/main.rs): keys, the clock    *)
(*               and the ticks it applies                                  *)
(***************************************************************************)
EXTENDS Naturals, Sequences, FiniteSets

VARIABLES
    text,         \* run_app's text: the source text loaded from the file
                  \* (in LineSpec: the raw text given to Line::new)
    typing,       \* App.typing: the Typing value (tag + State fields)
    time,         \* App.time: the selected duration
    custom_time,  \* App.custom_time: the duration given at construction
    now,          \* the monotonic clock: the latest Instant::now() reading
    hist,         \* history variable (not program state): how the run went
                  \*   "new"        built by App::new, not started yet
                  \*   "restarted"  put back to BeforeStart by restart
                  \*   "clean"      started; every keystroke so far matched
                  \*                and no line was skipped by a bare next()
                  \*   "dirty"      started; a keystroke mismatched or a line
                  \*                was skipped by a bare next()
                  \*   "typed_out"  a matching keystroke of a clean run
                  \*                produced Finish
    ticks,        \* history variable (not program state): the number of
                  \* ticks applied to the current run while it was Running
    line_value,   \* a Line value taken on its own: built by Line::new and
                  \* advanced by Line::next (LineSpec); None in the
                  \* specifications of the program, where the lines live in
                  \* typing.lines
    calls,        \* history variable (not program state): the number of
                  \* next() calls made on line_value
    progress,     \* App.progress: the TypingProgress sampler (the wpm and
                  \* acc series); written by App::tick only
    last_tick,    \* run_app's last_tick: the Instant of the start of the
                  \* loop or of the last applied tick
    exited        \* run_app has returned (quit or exit key)

vars == <<text, typing, time, custom_time, now, hist, ticks, line_value, calls,
          progress, last_tick, exited>>

----
\* Bounds of the model.

\* Longest source text, in characters.
MaxLen == 3
\* Largest duration (seconds) the program is constructed with.
MaxDuration == 3
\* Largest display_lines the program is constructed with.
MaxDisplay == 3
\* Largest reading of the clock.
MaxNow == 2
\* Largest number of mismatched keystrokes followed in one run.
MaxTypo == 2

\* The characters of the source texts: a letter, the blank and the line
\* feed.  Texts are taken after App::filter_text (no tab, Latin-1 only).
Alphabet == {"a", " ", "\n"}
\* The characters the keyboard delivers (KeyCode::Char(c), Enter as '\n');
\* no line holds a line feed, so Enter never matches an expected character.
Keys == {"a", " ", "\n"}

Texts == UNION {[1..k -> Alphabet] : k \in 0..MaxLen}
Durations == 0..MaxDuration
DisplayLines == 1..MaxDisplay
Instants == 0..MaxNow

----
\* Option<T>

None == <<>>
Some(x) == <<x>>
IsSome(o) == o # <<>>
Unwrap(o) == o[1]

----
\* Line (src/src/types/line.rs)

\* char::is_whitespace on the characters of Alphabet
IsWhitespace(c) == c \in {" ", "\n"}

RECURSIVE TrimStart(_)
\* str::trim_start
TrimStart(line) ==
    IF line # <<>> /\ IsWhitespace(Head(line)) THEN TrimStart(Tail(line)) ELSE line

\* Line::start_index
StartIndex(line) == Len(line) - Len(TrimStart(line))

\* Line::new without the [h] arm: a text of one character falls to the
\* [h, rest @ ..] arm and gets the empty rest.
LineNewWithoutOneCharacterArm(line_no, line) ==
    LET txt == SubSeq(line, StartIndex(line) + 1, Len(line))
        head == SubSeq(line, 1, StartIndex(line))
        head_space == IF head = <<>> THEN None ELSE Some(head)
    IN  IF Len(txt) >= 1
        THEN [line_no |-> line_no, head_space |-> head_space, entered |-> None,
              current |-> Some(Head(txt)), rest |-> Some(Tail(txt))]
        ELSE [line_no |-> line_no, head_space |-> None, entered |-> None,
              current |-> None, rest |-> None]

\* Line::new
LineNew(line_no, line) ==
    LET txt == SubSeq(line, StartIndex(line) + 1, Len(line))
        head == SubSeq(line, 1, StartIndex(line))
        head_space == IF head = <<>> THEN None ELSE Some(head)
    IN  IF Len(txt) = 1
        THEN [line_no |-> line_no, head_space |-> head_space, entered |-> None,
              current |-> Some(txt[1]), rest |-> None]
        ELSE IF Len(txt) > 1
        THEN [line_no |-> line_no, head_space |-> head_space, entered |-> None,
              current |-> Some(Head(txt)), rest |-> Some(Tail(txt))]
        ELSE [line_no |-> line_no, head_space |-> None, entered |-> None,
              current |-> None, rest |-> None]

\* Line::current_text
CurrentText(l) == l.current

\* Line::entered_text
EnteredText(l) ==
    IF IsSome(l.head_space) /\ IsSome(l.entered)
    THEN Some(Unwrap(l.head_space) \o Unwrap(l.entered))
    ELSE IF IsSome(l.head_space) THEN l.head_space
    ELSE IF IsSome(l.entered) THEN l.entered
    ELSE None

\* Line::rest_text
RestText(l) == l.rest

\* Line::input with `None => false`: a line without a current character
\* accepts no key.
LineInputRejectsOnBlank(l, c) ==
    IF IsSome(l.current) THEN Unwrap(l.current) = c ELSE FALSE

\* Line::input
LineInput(l, c) == IF IsSome(l.current) THEN Unwrap(l.current) = c ELSE TRUE

\* Line::is_entered
IsEntered(l) == l.rest = None

\* the `entered` field of Line::next built from `current` alone: the
\* characters entered before are dropped.
NextEnteredDropsEntered(l) ==
    IF IsSome(l.current) THEN Some(<<Unwrap(l.current)>>) ELSE None

\* the `entered` field built by both arms of Line::next
NextEntered(l) ==
    IF IsSome(l.entered)
    THEN (IF IsSome(l.current)
          THEN Some(Append(Unwrap(l.entered), Unwrap(l.current))) ELSE None)
    ELSE (IF IsSome(l.current) THEN Some(<<Unwrap(l.current)>>) ELSE None)

\* Line::next leaving no rest, rather than the empty rest, when it moves onto
\* the last character.
LineNextDropsEmptyRest(l) ==
    IF IsSome(l.rest)
    THEN LET rest == Unwrap(l.rest)
         IN  IF Len(rest) >= 1
             THEN [line_no |-> l.line_no, head_space |-> l.head_space,
                   entered |-> NextEntered(l),
                   current |-> Some(Head(rest)),
                   rest |-> IF Tail(rest) = <<>> THEN None ELSE Some(Tail(rest))]
             ELSE [line_no |-> l.line_no, head_space |-> l.head_space,
                   entered |-> NextEntered(l),
                   current |-> None, rest |-> None]
    ELSE l

\* Line::next
LineNext(l) ==
    IF IsSome(l.rest)
    THEN LET rest == Unwrap(l.rest)
         IN  IF Len(rest) >= 1
             THEN [line_no |-> l.line_no, head_space |-> l.head_space,
                   entered |-> NextEntered(l),
                   current |-> Some(Head(rest)), rest |-> Some(Tail(rest))]
             ELSE [line_no |-> l.line_no, head_space |-> l.head_space,
                   entered |-> NextEntered(l),
                   current |-> None, rest |-> None]
    ELSE l

----
\* Typing (src/src/types/typing.rs)

RECURSIVE Split(_)
\* str::split('\n'): the segments between the line feeds, in order
Split(txt) ==
    IF \E i \in 1..Len(txt) : txt[i] = "\n"
    THEN LET i == CHOOSE j \in 1..Len(txt) :
                      /\ txt[j] = "\n"
                      /\ \A k \in 1..(j - 1) : txt[k] # "\n"
         IN  <<SubSeq(txt, 1, i - 1)>> \o Split(SubSeq(txt, i + 1, Len(txt)))
    ELSE <<txt>>

\* Typing::to_lines, and the same expression inlined in Typing::new
ToLines(txt) ==
    LET segs == Split(txt)
    IN  [i \in 1..Len(segs) |-> LineNew(i, segs[i])]

\* Typing::new without the text.is_empty() check.
TypingNewAcceptsEmpty(txt, remaining_time, display_lines) ==
    [tag |-> "BeforeStart",
     current_index |-> 0,
     lines |-> ToLines(txt),
     start_time |-> None,
     end_time |-> None,
     remaining_time |-> remaining_time,
     typed |-> 0,
     typo |-> 0,
     is_error |-> FALSE,
     display_lines |-> display_lines]

\* Typing::new; Err is the anyhow error of an empty text
TypingNew(txt, remaining_time, display_lines) ==
    IF txt = <<>>
    THEN [tag |-> "Err"]
    ELSE [tag |-> "BeforeStart",
          current_index |-> 0,
          lines |-> ToLines(txt),
          start_time |-> None,
          end_time |-> None,
          remaining_time |-> remaining_time,
          typed |-> 0,
          typo |-> 0,
          is_error |-> FALSE,
          display_lines |-> display_lines]

\* Typing::restart without `start_time: None`: the timestamp comes from
\* ..s.clone().
TypingRestartKeepsStartTime(t, txt, remaining_time) ==
    IF t.tag = "Finish"
    THEN [t EXCEPT !.tag = "BeforeStart",
                   !.current_index = 0,
                   !.lines = ToLines(txt),
                   !.end_time = None,
                   !.remaining_time = remaining_time,
                   !.typed = 0,
                   !.typo = 0]
    ELSE t

\* Typing::restart without `typed: 0`: the count comes from ..s.clone().
TypingRestartKeepsTyped(t, txt, remaining_time) ==
    IF t.tag = "Finish"
    THEN [t EXCEPT !.tag = "BeforeStart",
                   !.current_index = 0,
                   !.lines = ToLines(txt),
                   !.start_time = None,
                   !.end_time = None,
                   !.remaining_time = remaining_time,
                   !.typo = 0]
    ELSE t

\* Typing::restart with the Running arm resetting the run like the Finish arm.
TypingRestartFromRunning(t, txt, remaining_time) ==
    IF t.tag \in {"Finish", "Running"}
    THEN [t EXCEPT !.tag = "BeforeStart",
                   !.current_index = 0,
                   !.lines = ToLines(txt),
                   !.start_time = None,
                   !.end_time = None,
                   !.remaining_time = remaining_time,
                   !.typed = 0,
                   !.typo = 0]
    ELSE t

\* Typing::restart
TypingRestart(t, txt, remaining_time) ==
    IF t.tag = "Finish"
    THEN [t EXCEPT !.tag = "BeforeStart",
                   !.current_index = 0,
                   !.lines = ToLines(txt),
                   !.start_time = None,
                   !.end_time = None,
                   !.remaining_time = remaining_time,
                   !.typed = 0,
                   !.typo = 0]
    ELSE t

\* Typing::start; n is the reading of Instant::now()
TypingStart(t, n) ==
    IF t.tag = "BeforeStart"
    THEN [t EXCEPT !.tag = "Running", !.start_time = Some(n)]
    ELSE t

\* Typing::finish; n is the reading of Instant::now()
TypingFinish(t, n) ==
    IF t.tag = "Running"
    THEN [t EXCEPT !.tag = "Finish", !.end_time = Some(n)]
    ELSE t

\* State::current; lines is indexed from 1 here, current_index from 0
Current(t) == t.lines[t.current_index + 1]

\* Typing::next comparing current_index, not current_index + 1, with the
\* number of lines: it steps past the last line.
TypingNextPastLastLine(t, n) ==
    IF t.tag = "Running"
    THEN IF t.current_index < Len(t.lines)
         THEN [t EXCEPT !.current_index = t.current_index + 1]
         ELSE TypingFinish(t, n)
    ELSE t

\* Typing::next; n is the reading of Instant::now() taken by finish
TypingNext(t, n) ==
    IF t.tag = "Running"
    THEN IF t.current_index + 1 < Len(t.lines)
         THEN [t EXCEPT !.current_index = t.current_index + 1]
         ELSE TypingFinish(t, n)
    ELSE t

\* Typing::input deciding on the line as it is before the keystroke is applied
\* rather than on next: the keystroke that consumes the last character of a
\* line leaves the run on that line.
TypingInputLooksBeforeNext(t, c, n) ==
    IF t.tag = "Running"
    THEN LET current_line == Current(t)
             entered == LineInput(current_line, c)
         IN  IF entered
             THEN LET next == LineNext(current_line)
                  IN  IF IsEntered(current_line)
                      THEN TypingNext(t, n)
                      ELSE [t EXCEPT !.lines[t.current_index + 1] = next,
                                     !.typed = t.typed + 1,
                                     !.is_error = FALSE]
             ELSE [t EXCEPT !.typo = t.typo + 1, !.is_error = TRUE]
    ELSE t

\* Typing::input without `is_error: true` in the mismatch arm.
TypingInputKeepsErrorFlag(t, c, n) ==
    IF t.tag = "Running"
    THEN LET current_line == Current(t)
             entered == LineInput(current_line, c)
         IN  IF entered
             THEN LET next == LineNext(current_line)
                  IN  IF IsEntered(next)
                      THEN TypingNext(t, n)
                      ELSE [t EXCEPT !.lines[t.current_index + 1] = next,
                                     !.typed = t.typed + 1,
                                     !.is_error = FALSE]
             ELSE [t EXCEPT !.typo = t.typo + 1]
    ELSE t

\* Typing::input; n is the reading of Instant::now() taken by finish
TypingInput(t, c, n) ==
    IF t.tag = "Running"
    THEN LET current_line == Current(t)
             entered == LineInput(current_line, c)
         IN  IF entered
             THEN LET next == LineNext(current_line)
                  IN  IF IsEntered(next)
                      THEN TypingNext(t, n)
                      ELSE [t EXCEPT !.lines[t.current_index + 1] = next,
                                     !.typed = t.typed + 1,
                                     !.is_error = FALSE]
             ELSE [t EXCEPT !.typo = t.typo + 1, !.is_error = TRUE]
    ELSE t

\* Typing::tick without the match on the tag: the countdown runs in every
\* state.
TypingTickInEveryState(t, n) ==
    IF t.remaining_time = 0
    THEN TypingFinish(t, n)
    ELSE [t EXCEPT !.remaining_time =
              IF t.remaining_time = 0 \/ t.remaining_time - 1 <= 1
              THEN 0
              ELSE t.remaining_time - 1]

\* Typing::tick; n is the reading of Instant::now() taken by finish
TypingTick(t, n) ==
    IF t.tag = "Running"
    THEN IF t.remaining_time = 0
         THEN TypingFinish(t, n)
         ELSE [t EXCEPT !.remaining_time =
                   IF t.remaining_time = 0 \/ t.remaining_time - 1 <= 1
                   THEN 0
                   ELSE t.remaining_time - 1]
    ELSE t

\* State::display_lines with the window starting at the current line instead
\* of one line before it.
TypingDisplayLinesFromCurrent(t) ==
    IF Len(t.lines) <= t.display_lines
    THEN t.lines
    ELSE LET start_index == t.current_index
             end_index == IF Len(t.lines) <= start_index + t.display_lines
                          THEN Len(t.lines)
                          ELSE start_index + t.display_lines
         IN  SubSeq(t.lines, start_index + 1, end_index)

\* State::display_lines with the end of the slice taken as inclusive: one
\* line more than display_lines.
TypingDisplayLinesInclusiveEnd(t) ==
    IF Len(t.lines) <= t.display_lines
    THEN t.lines
    ELSE LET start_index == IF t.current_index > 0 THEN t.current_index - 1 ELSE 0
             end_index == IF Len(t.lines) <= start_index + t.display_lines + 1
                          THEN Len(t.lines)
                          ELSE start_index + t.display_lines + 1
         IN  SubSeq(t.lines, start_index + 1, end_index)

\* Typing::display_lines, which is State::display_lines in every state; the
\* slice lines[start_index..end_index] counts from 0 and excludes end_index
TypingDisplayLines(t) ==
    IF Len(t.lines) <= t.display_lines
    THEN t.lines
    ELSE LET start_index == IF t.current_index > 0 THEN t.current_index - 1 ELSE 0
             end_index == IF Len(t.lines) <= start_index + t.display_lines
                          THEN Len(t.lines)
                          ELSE start_index + t.display_lines
         IN  SubSeq(t.lines, start_index + 1, end_index)

\* State::running_time; n is the reading of Instant::now() that stands in for
\* a timestamp the state does not hold
RunningTime(t, n) ==
    LET end_time == IF IsSome(t.end_time) THEN Unwrap(t.end_time) ELSE n
        start_time == IF IsSome(t.start_time) THEN Unwrap(t.start_time) ELSE n
    IN  end_time - start_time

\* State::wpm multiplying by 60 before it divides by the seconds.
StateWpmMultipliesFirst(t, n) ==
    LET sec == IF RunningTime(t, n) > 0 THEN RunningTime(t, n) ELSE 1
    IN  (((t.typed + t.typo) * 60) \div sec) \div 5

\* State::wpm; usize division truncates
StateWpm(t, n) ==
    LET sec == IF RunningTime(t, n) > 0 THEN RunningTime(t, n) ELSE 1
    IN  (((t.typed + t.typo) \div sec) * 60) \div 5

\* Typing::wpm
TypingWpm(t, n) ==
    IF t.tag \in {"Running", "Finish"} THEN StateWpm(t, n) ELSE 0

\* State::acc truncating the percentage instead of rounding it.
StateAccTruncates(t) ==
    IF t.typed + t.typo = 0
    THEN 0
    ELSE (100 * t.typed) \div (t.typed + t.typo)

\* State::acc: the f64 quotient times 100.0, round() (half away from zero)
\* and `as usize`, which turns the NaN of 0.0 / 0.0 into 0
StateAcc(t) ==
    IF t.typed + t.typo = 0
    THEN 0
    ELSE (200 * t.typed + (t.typed + t.typo)) \div (2 * (t.typed + t.typo))

\* Typing::acc
TypingAcc(t) ==
    IF t.tag \in {"Running", "Finish"} THEN StateAcc(t) ELSE 0

\* Typing::get_remaining_time
GetRemainingTime(t) == t.remaining_time

\* Typing::update_remaining_time
UpdateRemainingTime(t, d) == [t EXCEPT !.remaining_time = d]

\* Typing::is_error
IsError(t) == IF t.tag = "Running" THEN t.is_error ELSE FALSE

\* Typing::typed
Typed(t) == IF t.tag \in {"Running", "Finish"} THEN t.typed ELSE 0

\* Typing::typo
Typo(t) == IF t.tag \in {"Running", "Finish"} THEN t.typo ELSE 0

----
\* App (src/src/app.rs)

\* App::elapsed_time
ElapsedTime == time - GetRemainingTime(typing)

\* SELECTABLE_TIME, in seconds
SELECTABLE_TIME == <<15, 30, 60, 120>>

RECURSIVE Insert(_, _)
\* the sorted sequence s with x put in its place
Insert(s, x) ==
    IF s = <<>> THEN <<x>>
    ELSE IF x <= Head(s) THEN <<x>> \o s
    ELSE <<Head(s)>> \o Insert(Tail(s), x)

RECURSIVE Sort(_)
\* Vec::sort on durations
Sort(s) == IF s = <<>> THEN <<>> ELSE Insert(Sort(Tail(s)), Head(s))

RECURSIVE Dedup(_)
\* Vec::dedup: of consecutive equal elements only the first is kept
Dedup(s) ==
    IF Len(s) <= 1 THEN s
    ELSE IF s[1] = s[2] THEN Dedup(Tail(s))
    ELSE <<Head(s)>> \o Dedup(Tail(s))

\* App::selectable_time without times.dedup().
SelectableTimeKeepsDuplicates(c) == Sort(SELECTABLE_TIME \o <<c>>)

\* App::selectable_time, custom duration `c`
SelectableTime(c) == Dedup(Sort(SELECTABLE_TIME \o <<c>>))

\* App::next_time: the duration selected after `t`, custom duration `c`
NextTime(t, c) ==
    IF t = 15 THEN 30
    ELSE IF t = 30 THEN 60
    ELSE IF t = 60 THEN 120
    ELSE IF t = 120 THEN (IF c # 15 THEN c ELSE 15)
    ELSE (IF ~(c \in 15..120) THEN 15 ELSE c)

\* App::prev_time: the duration selected before `t`, custom duration `c`
PrevTime(t, c) ==
    IF t = 15 THEN (IF c # 120 THEN c ELSE 120)
    ELSE IF t = 30 THEN 15
    ELSE IF t = 60 THEN 30
    ELSE IF t = 120 THEN 60
    ELSE (IF c \in 15..120 THEN 120 ELSE c)

\* TypingProgress::new
TypingProgressNew == [wpm |-> <<>>, acc |-> <<>>]

\* TypingProgress::add that pushes the wpm sample only.
TypingProgressAddWpmOnly(p, t, n) ==
    [p EXCEPT !.wpm = Append(p.wpm, TypingWpm(t, n))]

\* TypingProgress::add; n is the reading of Instant::now() taken by wpm()
TypingProgressAdd(p, t, n) ==
    [wpm |-> Append(p.wpm, TypingWpm(t, n)),
     acc |-> Append(p.acc, TypingAcc(t))]

\* TypingProgress::wpm_max: the fold of max over the wpm series from
\* usize::MIN
RECURSIVE FoldMax(_, _)
FoldMax(a, s) ==
    IF s = <<>> THEN a
    ELSE FoldMax(IF Head(s) > a THEN Head(s) ELSE a, Tail(s))

WpmMax(p) == FoldMax(0, p.wpm)

\* TypingProgress::wpm_plot: the points (i, wpm) with the origin put first
WpmPlot(p) ==
    LET wpm == [i \in 1..Len(p.wpm) |-> <<i - 1, p.wpm[i]>>]
    IN  <<<<0, 0>>>> \o wpm

\* TypingProgress::acc_plot: the points (i, acc) with (0, 100) put first
AccPlot(p) ==
    LET acc == [i \in 1..Len(p.acc) |-> <<i - 1, p.acc[i]>>]
    IN  <<<<0, 100>>>> \o acc

\* App::new, on the text App::filter_text returns
Init ==
    \E tx \in Texts, d \in Durations, dl \in DisplayLines :
        /\ text = tx
        /\ typing = TypingNew(tx, d, dl)
        /\ time = d
        /\ custom_time = d
        /\ now = 0
        /\ hist = "new"
        /\ ticks = 0
        /\ line_value = None
        /\ calls = 0
        /\ progress = TypingProgressNew
        /\ last_tick = 0
        /\ exited = FALSE

\* The program is running: App::new did not fail.
Alive == typing.tag # "Err"

\* The readings Instant::now() can give to a call that returns t: the call
\* reads the clock only when it enters Running (start) or Finish (finish); the
\* clock never goes back.
Readings(t) ==
    IF t.tag # typing.tag /\ t.tag \in {"Running", "Finish"}
    THEN now..MaxNow
    ELSE {now}

\* App::start without the match on the state: the selected duration is
\* written into the run in every state.
StartStepInEveryState(n) ==
    /\ Alive
    /\ n \in Readings(TypingStart(typing, now))
    /\ typing' = TypingStart(UpdateRemainingTime(typing, time), n)
    /\ now' = n
    /\ hist' = IF typing.tag = "BeforeStart" THEN "clean" ELSE hist
    /\ ticks' = IF typing.tag = "BeforeStart" THEN 0 ELSE ticks
    /\ UNCHANGED <<progress, last_tick, exited, line_value, calls, text, time, custom_time>>

\* App::start, Instant::now() reading n
StartStep(n) ==
    /\ Alive
    /\ n \in Readings(TypingStart(typing, now))
    /\ typing' = IF typing.tag = "BeforeStart"
                 THEN TypingStart(UpdateRemainingTime(typing, time), n)
                 ELSE typing
    /\ now' = n
    /\ hist' = IF typing.tag = "BeforeStart" THEN "clean" ELSE hist
    /\ ticks' = IF typing.tag = "BeforeStart" THEN 0 ELSE ticks
    /\ UNCHANGED <<progress, last_tick, exited, line_value, calls, text, time, custom_time>>

Start == \E n \in Instants : StartStep(n)

\* App::input of the character c, Instant::now() reading n
InputStep(c, n) ==
    /\ Alive
    /\ n \in Readings(TypingInput(typing, c, now))
    /\ typing' = TypingInput(typing, c, n)
    /\ typing'.typo <= MaxTypo
    /\ now' = n
    /\ hist' = IF typing.tag # "Running" THEN hist
               ELSE IF ~LineInput(Current(typing), c) THEN "dirty"
               ELSE IF hist = "clean" /\ typing'.tag = "Finish" THEN "typed_out"
               ELSE hist
    /\ UNCHANGED <<progress, last_tick, exited, line_value, calls, text, time, custom_time, ticks>>

Input == \E c \in Keys, n \in Instants : InputStep(c, n)

\* Typing::next called on App.typing, Instant::now() reading n
NextStep(n) ==
    /\ Alive
    /\ n \in Readings(TypingNext(typing, now))
    /\ typing' = TypingNext(typing, n)
    /\ now' = n
    /\ hist' = IF typing.tag = "Running" THEN "dirty" ELSE hist
    /\ UNCHANGED <<progress, last_tick, exited, line_value, calls, text, time, custom_time, ticks>>

Next_ == \E n \in Instants : NextStep(n)

\* Typing::tick called on App.typing, the tick having no finishing arm: it
\* counts the remaining time down and does nothing once it is 0.
TickStepWithoutFinish(n) ==
    /\ Alive
    /\ n = now
    /\ typing' = IF typing.tag = "Running" /\ typing.remaining_time # 0
                 THEN TypingTick(typing, n)
                 ELSE typing
    /\ now' = n
    /\ ticks' = IF typing' # typing THEN ticks + 1 ELSE ticks
    /\ UNCHANGED <<progress, last_tick, exited, line_value, calls, text, time, custom_time, hist>>

\* Typing::tick called on App.typing, Instant::now() reading n
TickStep(n) ==
    /\ Alive
    /\ n \in Readings(TypingTick(typing, now))
    /\ typing' = TypingTick(typing, n)
    /\ now' = n
    /\ ticks' = IF typing.tag = "Running" THEN ticks + 1 ELSE ticks
    /\ UNCHANGED <<progress, last_tick, exited, line_value, calls, text, time, custom_time, hist>>

Tick == \E n \in Instants : TickStep(n)

\* App::finish, Instant::now() reading n
FinishStep(n) ==
    /\ Alive
    /\ n \in Readings(TypingFinish(typing, now))
    /\ typing' = TypingFinish(typing, n)
    /\ now' = n
    /\ UNCHANGED <<progress, last_tick, exited, line_value, calls, text, time, custom_time, hist, ticks>>

Finish == \E n \in Instants : FinishStep(n)

\* App::restart(text), on the text App::filter_text returns
Restart ==
    /\ Alive
    /\ typing' = TypingRestart(typing, text, time)
    /\ hist' = IF typing.tag = "Finish" THEN "restarted" ELSE hist
    /\ ticks' = IF typing.tag = "Finish" THEN 0 ELSE ticks
    /\ UNCHANGED <<progress, last_tick, exited, line_value, calls, text, time, custom_time, now>>

Next ==
    \/ Start
    \/ Input
    \/ Next_
    \/ Tick
    \/ Finish
    \/ Restart

Spec == Init /\ [][Next]_vars

\* The program under a driver that keeps applying ticks: run_app applies
\* App::tick in every iteration of its loop entered one second or more after
\* the last applied tick, and the poll for a key never waits longer than that,
\* so a tick that changes the state is never put off for ever.
FairSpec == Spec /\ WF_vars(Tick)

----
\* The program with the selection of the duration (the Right and Left keys of
\* run_app).  The selectable durations run up to 120 seconds, so this
\* specification follows the documents of at most SelectLen characters, shown
\* one line at a time, and does not follow the clock: it stands at its last
\* reading from the construction on.

\* Longest source text followed together with the selection of the duration.
SelectLen == 2

\* App::new, as in Init
SelectInit ==
    \E tx \in Texts, d \in Durations :
        /\ Len(tx) <= SelectLen
        /\ text = tx
        /\ typing = TypingNew(tx, d, 1)
        /\ time = d
        /\ custom_time = d
        /\ now = MaxNow
        /\ hist = "new"
        /\ ticks = 0
        /\ line_value = None
        /\ calls = 0
        /\ progress = TypingProgressNew
        /\ last_tick = 0
        /\ exited = FALSE

\* KeyCode::Right in BeforeStart: App::next_time
Right ==
    /\ Alive
    /\ typing.tag = "BeforeStart"
    /\ time' = NextTime(time, custom_time)
    /\ UNCHANGED <<progress, last_tick, exited, line_value, calls, text, typing, custom_time, now, hist, ticks>>

\* KeyCode::Left in BeforeStart: App::prev_time
Left ==
    /\ Alive
    /\ typing.tag = "BeforeStart"
    /\ time' = PrevTime(time, custom_time)
    /\ UNCHANGED <<progress, last_tick, exited, line_value, calls, text, typing, custom_time, now, hist, ticks>>

SelectNext ==
    \/ Right
    \/ Left
    \/ Start
    \/ Input
    \/ Next_
    \/ Tick
    \/ Finish
    \/ Restart

SelectSpec == SelectInit /\ [][SelectNext]_vars

----
\* The selection of the duration on its own: the Right and Left keys before
\* the run is started, for every custom duration up to MaxCustom.

\* Largest custom duration (seconds) the selection is followed with.
MaxCustom == 121

\* App::new with the custom duration d, on a text of one character
TimeInit ==
    \E d \in 0..MaxCustom :
        /\ text = <<"a">>
        /\ typing = TypingNew(<<"a">>, d, 1)
        /\ time = d
        /\ custom_time = d
        /\ now = 0
        /\ hist = "new"
        /\ ticks = 0
        /\ line_value = None
        /\ calls = 0
        /\ progress = TypingProgressNew
        /\ last_tick = 0
        /\ exited = FALSE

TimeNext ==
    \/ Right
    \/ Left

TimeSpec == TimeInit /\ [][TimeNext]_vars

----
\* A Line on its own: Line::new on a raw line text, then next() calls.  Here
\* `text` is the raw text of the line (a segment of split('\n'): it holds no
\* line feed) and no Typing value is constructed.

\* Longest raw line text.
MaxLineLen == 4
\* Largest number of next() calls followed on one line.
MaxCalls == 5

\* The characters of the raw line texts: two letters and the blank.
LineAlphabet == {"a", "b", " "}

LineTexts == UNION {[1..k -> LineAlphabet] : k \in 0..MaxLineLen}

\* The line numbers Typing::to_lines gives: the first line and a later one.
LineNos == {1, 2}

\* Line::new(line_no, raw)
LineInit ==
    \E raw \in LineTexts, line_no \in LineNos :
        /\ text = raw
        /\ line_value = LineNew(line_no, raw)
        /\ calls = 0
        /\ progress = TypingProgressNew
        /\ last_tick = 0
        /\ exited = FALSE
        /\ typing = [tag |-> "Err"]
        /\ time = 0
        /\ custom_time = 0
        /\ now = 0
        /\ hist = "new"
        /\ ticks = 0

\* line_value.next()
CallNext ==
    /\ calls < MaxCalls
    /\ line_value' = LineNext(line_value)
    /\ calls' = calls + 1
    /\ UNCHANGED <<text, typing, time, custom_time, now, hist, ticks,
                   progress, last_tick, exited>>

LineStep == CallNext

LineSpec == LineInit /\ [][LineStep]_vars

----
\* The loop of run_app: one step is one iteration.  The iteration polls for a
\* key for at most the rest of the tick period, handles the key by the state
\* of the run, and then applies the tick when the period has gone by and the
\* run is Running.  Documents of one character, shown one line at a time; the
\* clock is followed up to MaxClock.

\* Largest reading of the clock under the loop of run_app.
MaxClock == 4

QUIT_COMMAND == "q"
EXIT_COMMAND == "c"
RESTART_COMMAND == "r"
ONE_SEC == 1

\* The key events followed: KeyCode::Char(c) with and without the CONTROL
\* modifier, and the keys Enter, Right, Left and Esc.
Char(c) == [code |-> "Char", c |-> c, modifiers |-> "NONE"]
Ctrl(c) == [code |-> "Char", c |-> c, modifiers |-> "CONTROL"]
Code(k) == [code |-> k, c |-> "", modifiers |-> "NONE"]
KeyEvents ==
    {Char(c) : c \in {"a", " ", QUIT_COMMAND, RESTART_COMMAND, EXIT_COMMAND}}
        \cup {Ctrl(EXIT_COMMAND)}
        \cup {Code(k) : k \in {"Enter", "Right", "Left", "Esc"}}

\* The documents followed under the loop: one character, a character of
\* Alphabet or the letter of QUIT_COMMAND.
DriverTexts == {<<c>> : c \in Alphabet \cup {QUIT_COMMAND}}

\* run_app before the loop, on the program App::new returns
DriverInit ==
    \E tx \in DriverTexts, d \in Durations :
        /\ text = tx
        /\ typing = TypingNew(tx, d, 1)
        /\ time = d
        /\ custom_time = d
        /\ now = 0
        /\ hist = "new"
        /\ ticks = 0
        /\ line_value = None
        /\ calls = 0
        /\ progress = TypingProgressNew
        /\ last_tick = now
        /\ exited = FALSE

\* The timeout given to crossterm::event::poll
Timeout ==
    IF now - last_tick >= ONE_SEC THEN 0 ELSE ONE_SEC - (now - last_tick)

\* The match on app.typing and key.code: the program (typing, time) after the
\* key, and whether run_app returns; n is the reading of Instant::now()
KeyHandled(key, n) ==
    LET app == [typing |-> typing, time |-> time, exited |-> FALSE]
    IN  CASE typing.tag = "BeforeStart" ->
                 IF key.code = "Right"
                 THEN [app EXCEPT !.time = NextTime(time, custom_time)]
                 ELSE IF key.code = "Left"
                 THEN [app EXCEPT !.time = PrevTime(time, custom_time)]
                 ELSE IF key = Char(QUIT_COMMAND)
                 THEN [app EXCEPT !.exited = TRUE]
                 ELSE IF key = Ctrl(EXIT_COMMAND)
                 THEN [app EXCEPT !.exited = TRUE]
                 ELSE IF key.code = "Char"
                 THEN [app EXCEPT !.typing =
                          TypingInput(
                              TypingStart(UpdateRemainingTime(typing, time), n),
                              key.c, n)]
                 ELSE app
          [] typing.tag = "Running" ->
                 IF key.code = "Enter"
                 THEN [app EXCEPT !.typing = TypingInput(typing, "\n", n)]
                 ELSE IF key = Ctrl(EXIT_COMMAND)
                 THEN [app EXCEPT !.typing = TypingFinish(typing, n)]
                 ELSE IF key.code = "Char"
                 THEN [app EXCEPT !.typing = TypingInput(typing, key.c, n)]
                 ELSE app
          [] typing.tag = "Finish" ->
                 IF key = Char(RESTART_COMMAND)
                 THEN [app EXCEPT !.typing = TypingRestart(typing, text, time)]
                 ELSE IF key = Char(QUIT_COMMAND)
                 THEN [app EXCEPT !.exited = TRUE]
                 ELSE IF key = Ctrl(EXIT_COMMAND)
                 THEN [app EXCEPT !.exited = TRUE]
                 ELSE app

\* The end of the iteration: App::tick (Typing::tick, then the sample of the
\* ticked run) when last_tick.elapsed() >= ONE_SEC and the run is Running
TickDue(app, n) ==
    LET due == n - last_tick >= ONE_SEC /\ app.typing.tag = "Running"
        ticked == TypingTick(app.typing, n)
    IN  /\ typing' = IF due THEN ticked ELSE app.typing
        /\ progress' = IF due THEN TypingProgressAdd(progress, ticked, n)
                       ELSE progress
        /\ last_tick' = IF due THEN n ELSE last_tick

\* An iteration in which poll delivers the key event: the clock reads n
KeyIteration(key, n) ==
    /\ Alive
    /\ ~exited
    /\ n \in now..(now + ONE_SEC)
    /\ n <= MaxClock
    /\ LET app == KeyHandled(key, n)
       IN  /\ app.typing.typo <= MaxTypo
           /\ time' = app.time
           /\ exited' = app.exited
           /\ IF app.exited
              THEN UNCHANGED <<typing, progress, last_tick>>
              ELSE TickDue(app, n)
    /\ now' = n
    /\ UNCHANGED <<text, custom_time, hist, ticks, line_value, calls>>

KeyEvent == \E key \in KeyEvents, n \in 0..MaxClock : KeyIteration(key, n)

\* An iteration in which poll times out: the clock reads n, the timeout
\* later or more
PollTimeout ==
    \E n \in 0..MaxClock :
        /\ Alive
        /\ ~exited
        /\ n \in (now + Timeout)..(now + ONE_SEC)
        /\ TickDue([typing |-> typing, time |-> time, exited |-> FALSE], n)
        /\ now' = n
        /\ UNCHANGED <<text, time, custom_time, hist, ticks, line_value, calls,
                       exited>>

DriverNext ==
    \/ KeyEvent
    \/ PollTimeout

DriverSpec == DriverInit /\ [][DriverNext]_vars

----
\* Vocabulary of the properties, stated on the source text and on the fields
\* rather than through the operations.

\* the line being typed expects the character c
Expects(t, c) == Current(t).current = Some(c)

\* the line being typed is blank: it expects no character
Blank(t) == Current(t).current = None

\* no character of the line being typed comes after the expected one
NothingAfterCurrent(t) ==
    \/ Current(t).rest = None
    \/ Current(t).rest = Some(<<>>)

\* the line being typed is the last line of the document
OnLastLine(t) == t.current_index + 1 = Len(t.lines)

----
\* C1: in Running, a keystroke the current line accepts (the expected
\* character, or any character on a blank line) produces Finish exactly when
\* it consumes the last character of the last line; every other accepted
\* keystroke leaves the state Running.
C1_FinishOnLastCharacter ==
    [][\A c \in Keys :
         ( /\ typing.tag = "Running"
           /\ (Expects(typing, c) \/ Blank(typing))
           /\ InputStep(c, now') )
         => /\ typing'.tag \in {"Running", "Finish"}
            /\ typing'.tag = "Finish"
                 <=> (OnLastLine(typing) /\ NothingAfterCurrent(typing))]_vars

\* C1 witness: a document of two lines, the last one not blank, typed out by
\* matching keystrokes only and ended in Finish by the last of them.
C1_Witness ==
    /\ hist = "typed_out"
    /\ typing.tag = "Finish"
    /\ Len(typing.lines) = 2
    /\ typing.current_index = 1
    /\ ~Blank(typing)

\* The characters of the text tx that are neither a line feed nor part of the
\* leading whitespace of their line: position i counts when a character that
\* is no whitespace stands at or before i on the same line.
DocChars(tx) ==
    Cardinality({i \in 1..Len(tx) :
        \E j \in 1..i : /\ ~IsWhitespace(tx[j])
                         /\ \A k \in j..i : tx[k] # "\n"})

\* C2: when a run reaches Finish by typing the whole document with matching
\* keystrokes only, typed is the number of characters of the document, the
\* leading whitespace of each line not counted, and typo is 0.
C2_TypedIsDocumentLength ==
    hist = "typed_out" => /\ typing.typed = DocChars(text)
                          /\ typing.typo = 0

\* C3: in Running, a keystroke that matches the expected character and does
\* not end the document adds exactly 1 to typed, leaves typo unchanged and
\* replaces the current line by its next() value, also when it completes a
\* line that is not the last one.
C3_MatchAdvancesAndCounts ==
    [][\A c \in Keys :
         ( /\ typing.tag = "Running"
           /\ Expects(typing, c)
           /\ ~(OnLastLine(typing) /\ NothingAfterCurrent(typing))
           /\ InputStep(c, now') )
         => /\ typing'.typed = typing.typed + 1
            /\ typing'.typo = typing.typo
            /\ typing'.lines =
                 [typing.lines EXCEPT ![typing.current_index + 1] =
                     LineNext(Current(typing))]]_vars

\* C4: in Running, a keystroke that does not match the expected character
\* adds exactly 1 to typo, leaves typed, current_index, remaining_time and the
\* current line's current and rest unchanged, sets is_error and leaves the
\* state Running.
C4_MismatchCountsTypoOnly ==
    [][\A c \in Keys :
         ( /\ typing.tag = "Running"
           /\ ~Expects(typing, c)
           /\ ~Blank(typing)
           /\ InputStep(c, now') )
         => /\ typing'.tag = "Running"
            /\ typing'.typo = typing.typo + 1
            /\ typing'.typed = typing.typed
            /\ typing'.current_index = typing.current_index
            /\ typing'.remaining_time = typing.remaining_time
            /\ Current(typing').current = Current(typing).current
            /\ Current(typing').rest = Current(typing).rest
            /\ IsError(typing')]_vars

\* C4 witness: a run that has matched a keystroke, has been ticked and has
\* just taken its first mismatch.
C4_Witness ==
    /\ typing.tag = "Running"
    /\ hist = "dirty"
    /\ typing.is_error
    /\ typing.typo = 1
    /\ typing.typed >= 1
    /\ ticks >= 1

\* C5: is_error() is true exactly when the state is Running and the latest
\* keystroke of the run was a mismatch: after every keystroke taken in
\* Running it is true iff the run goes on and the keystroke mismatched, and
\* it is false when start() has just started the run.
C5_ErrorFlagFollowsLastKeystroke ==
    [][/\ \A c \in Keys :
            (typing.tag = "Running" /\ InputStep(c, now'))
            => (IsError(typing')
                  <=> /\ typing'.tag = "Running"
                      /\ ~Expects(typing, c)
                      /\ ~Blank(typing))
       /\ (typing.tag = "BeforeStart" /\ StartStep(now'))
            => ~IsError(typing')]_vars

\* C6: a run of N >= 1 seconds that is only ticked is in Finish after exactly
\* N ticks: the tick that produces Finish is the N-th one, and a tick taken
\* with remaining_time <= 1 produces Finish.
C6_NthTickFinishes ==
    [][( /\ typing.tag = "Running"
         /\ time >= 1
         /\ TickStep(now') )
       => /\ typing'.tag = "Finish" <=> ticks' = time
          /\ typing.remaining_time <= 1 => typing'.tag = "Finish"]_vars

\* C7: a tick applied in Running with remaining_time r > 0 yields exactly
\* r - 1, so that App::elapsed_time() is the number of ticks applied.
C7_TickTakesOneSecond ==
    [][( /\ typing.tag = "Running"
         /\ typing.remaining_time > 0
         /\ TickStep(now') )
       => /\ typing'.remaining_time = typing.remaining_time - 1
          /\ time' - GetRemainingTime(typing') = ticks']_vars

\* the positions of the text tx that hold the characters of its k-th line
LinePositions(tx, k) ==
    {i \in 1..Len(tx) :
        /\ tx[i] # "\n"
        /\ Cardinality({j \in 1..i : tx[j] = "\n"}) = k - 1}

\* the k-th newline-delimited segment of the text tx
Segment(tx, k) ==
    LET P == LinePositions(tx, k)
    IN  IF P = {} THEN <<>>
        ELSE SubSeq(tx, CHOOSE i \in P : \A j \in P : i <= j,
                        CHOOSE i \in P : \A j \in P : j <= i)

\* the characters a line holds, typed or not
RawText(l) ==
    (IF IsSome(l.head_space) THEN Unwrap(l.head_space) ELSE <<>>)
    \o (IF IsSome(l.entered) THEN Unwrap(l.entered) ELSE <<>>)
    \o l.current
    \o (IF IsSome(l.rest) THEN Unwrap(l.rest) ELSE <<>>)

\* ls holds one untyped line per newline-delimited segment of tx, in document
\* order; a segment of whitespace only gives a blank line.
FreshLinesOf(ls, tx) ==
    /\ Len(ls) = Cardinality({i \in 1..Len(tx) : tx[i] = "\n"}) + 1
    /\ \A k \in 1..Len(ls) :
         /\ ls[k].line_no = k
         /\ ls[k].entered = None
         /\ IF \A i \in LinePositions(tx, k) : IsWhitespace(tx[i])
            THEN ls[k].current = None /\ ls[k].rest = None
            ELSE IsSome(ls[k].current) /\ RawText(ls[k]) = Segment(tx, k)

\* C8: Typing::new fails exactly on the empty text; on any other text it
\* gives BeforeStart with current_index, typed and typo 0, is_error false, no
\* start or end time and one line per newline-delimited segment, in order.
C8_NewBuildsBeforeStart ==
    hist = "new" =>
        /\ typing.tag = "Err" <=> text = <<>>
        /\ text # <<>> =>
             /\ typing.tag = "BeforeStart"
             /\ typing.current_index = 0
             /\ typing.typed = 0
             /\ typing.typo = 0
             /\ typing.is_error = FALSE
             /\ typing.start_time = None
             /\ typing.end_time = None
             /\ FreshLinesOf(typing.lines, text)

\* C8 witness: the state built from a text of three segments, the last one
\* the empty segment after a final line feed.
C8_Witness ==
    /\ hist = "new"
    /\ typing.tag = "BeforeStart"
    /\ text[Len(text)] = "\n"
    /\ Len(typing.lines) = 3

\* C9: restart in Finish gives BeforeStart with the lines rebuilt from the
\* text, current_index, typed and typo 0, no start or end time and
\* remaining_time the duration passed (App::restart passes text and time).
C9_RestartResetsRun ==
    hist = "restarted" =>
        /\ typing.tag = "BeforeStart"
        /\ FreshLinesOf(typing.lines, text)
        /\ typing.current_index = 0
        /\ typing.typed = 0
        /\ typing.typo = 0
        /\ typing.start_time = None
        /\ typing.end_time = None
        /\ typing.remaining_time = time

\* C9 witness: a restarted document of two lines with a duration that ticks
\* had to run down.
C9_Witness ==
    /\ hist = "restarted"
    /\ typing.tag = "BeforeStart"
    /\ Len(typing.lines) >= 2
    /\ typing.remaining_time >= 2

\* the texts restart is tried with in C10: the loaded text and every text of
\* at most one character (the empty text included)
RestartTexts == {text} \cup {tx \in Texts : Len(tx) <= 1}

\* C10: restart in Running or in BeforeStart returns the state as it is, tag
\* and every field, whatever text and duration it is given.
C10_RestartIsNoOpBeforeFinish ==
    typing.tag \in {"BeforeStart", "Running"} =>
        \A tx \in RestartTexts, d \in Durations :
            TypingRestart(typing, tx, d) = typing

\* C10 witness: a run in mid-course (typed, mistyped and ticked), which the
\* reset of the Finish arm would change in every one of these fields.
C10_Witness ==
    /\ typing.tag = "Running"
    /\ typing.current_index >= 1
    /\ typing.typed >= 1
    /\ typing.typo >= 1
    /\ typing.remaining_time < time

\* C11: an event that does not apply to the state returns the Typing value as
\* it is, tag and every field: input, tick, finish and next in BeforeStart;
\* start, input, tick, finish and next in Finish; start in Running.
C11_InapplicableEventsAreNoOps ==
    \A n \in Instants :
        /\ typing.tag \in {"BeforeStart", "Finish"} =>
               /\ \A c \in Keys : TypingInput(typing, c, n) = typing
               /\ TypingTick(typing, n) = typing
               /\ TypingFinish(typing, n) = typing
               /\ TypingNext(typing, n) = typing
        /\ typing.tag \in {"Finish", "Running"} =>
               TypingStart(typing, n) = typing

\* C11 witness: a run finished before its text and its time were used up, so
\* that a key, a tick or a next() would each have something left to act on.
C11_Witness ==
    /\ typing.tag = "Finish"
    /\ ~OnLastLine(typing)
    /\ Expects(typing, "a")
    /\ typing.remaining_time >= 1
    /\ typing.typo >= 1

\* the index (from 0) of the first line of the window of a document that
\* does not fit: one before the current line, and 0 on the first line
WindowStart(t) == IF t.current_index >= 1 THEN t.current_index - 1 ELSE 0

\* the number of lines of t from the window start to the end of the document
LinesFromWindowStart(t) == Len(t.lines) - WindowStart(t)

\* C12: display_lines() is the whole document when it has at most
\* display_lines lines; otherwise it is the lines with the indices
\* s, s+1, ..., min(len, s + display_lines) - 1 in that order, where s is the
\* current index less one (0 on the first line).
C12_WindowIsSliceFromOneBeforeCurrent ==
    Alive =>
        LET window == TypingDisplayLines(typing)
            len == Len(typing.lines)
            s == WindowStart(typing)
            e == IF len <= s + typing.display_lines
                 THEN len ELSE s + typing.display_lines
        IN  IF len <= typing.display_lines
            THEN window = typing.lines
            ELSE /\ Len(window) = e - s
                 /\ \A i \in 1..(e - s) : window[i] = typing.lines[s + i]

\* C12 witness: a document of four lines shown two at a time, on its third
\* line: the window is lines 2 and 3, cut at both ends.
C12_Witness ==
    /\ typing.tag = "Running"
    /\ Len(typing.lines) = 4
    /\ typing.display_lines = 2
    /\ typing.current_index = 2
    /\ TypingDisplayLines(typing) = <<typing.lines[2], typing.lines[3]>>

\* C13 as claimed: a document with more lines than display_lines is always
\* shown through a window of exactly display_lines lines.
C13_WindowIsAlwaysFull ==
    (Alive /\ Len(typing.lines) > typing.display_lines) =>
        Len(TypingDisplayLines(typing)) = typing.display_lines

\* C13 amended: a document with more lines than display_lines is shown
\* through a window of display_lines lines while that many remain from the
\* window start, and of the lines that remain otherwise (at least two, the
\* line before the current one and the current one, once past the first line).
C13_WindowIsFullUntilTheEnd ==
    (Alive /\ Len(typing.lines) > typing.display_lines) =>
        LET n == Len(TypingDisplayLines(typing))
        IN  /\ n = IF LinesFromWindowStart(typing) >= typing.display_lines
                   THEN typing.display_lines
                   ELSE LinesFromWindowStart(typing)
            /\ n >= 1
            /\ (typing.display_lines >= 2 => n >= 2)

\* C13 witness: four lines shown three at a time, on the last line: the
\* window holds the two lines that remain.
C13_Witness ==
    /\ typing.tag = "Running"
    /\ Len(typing.lines) = 4
    /\ typing.display_lines = 3
    /\ typing.current_index = 3
    /\ Len(TypingDisplayLines(typing)) = 2

\* C14: in every state of a constructed program the document has at least one
\* line and current_index is the index (from 0) of one of its lines, so
\* State::current finds the line.
C14_CurrentIndexInRange ==
    Alive =>
        /\ Len(typing.lines) >= 1
        /\ typing.current_index \in 0..(Len(typing.lines) - 1)
        /\ Current(typing) \in {typing.lines[k] : k \in 1..Len(typing.lines)}

\* C14 witness: a run of a document of several lines that was left on its
\* last line by the keystroke that ended it.
C14_Witness ==
    /\ typing.tag = "Finish"
    /\ hist = "typed_out"
    /\ Len(typing.lines) >= 3
    /\ typing.current_index = Len(typing.lines) - 1

\* C15: a step taken in Running, which ends in Running or in Finish, lowers
\* neither typed nor typo and does not raise remaining_time; the only steps
\* that raise remaining_time are restart from Finish and start from
\* BeforeStart, and both set it to the selected duration.
C15_CountersAndTimeAreMonotone ==
    [][/\ (Alive /\ typing.tag = "Running") =>
              /\ typing'.tag \in {"Running", "Finish"}
              /\ typing'.typed >= typing.typed
              /\ typing'.typo >= typing.typo
              /\ typing'.remaining_time <= typing.remaining_time
       /\ (Alive /\ typing'.remaining_time > typing.remaining_time) =>
              /\ \/ typing.tag = "Finish" /\ typing'.tag = "BeforeStart"
                 \/ typing.tag = "BeforeStart" /\ typing'.tag = "Running"
              /\ typing'.remaining_time = time]_vars

\* C15 witness: a run started with a selected duration larger than the one
\* the program was constructed with, then typed, mistyped and ticked.
C15_Witness ==
    /\ typing.tag = "Running"
    /\ time = 15
    /\ custom_time < time
    /\ typing.remaining_time = 13
    /\ typing.typed >= 1
    /\ typing.typo >= 1

\* the timestamps a state with the tag of t holds
TimestampsFollowTag(t) ==
    /\ t.tag = "BeforeStart" => t.start_time = None /\ t.end_time = None
    /\ t.tag = "Running" => IsSome(t.start_time) /\ t.end_time = None
    /\ t.tag = "Finish" => IsSome(t.start_time) /\ IsSome(t.end_time)

\* C16: BeforeStart holds neither timestamp, Running holds start_time only
\* and Finish holds both; a timestamp that is set keeps its value until
\* restart clears it, start_time is set by the step that enters Running and
\* end_time by the step that enters Finish.
C16_TimestampsFollowTag ==
    /\ [](Alive => TimestampsFollowTag(typing))
    /\ [][Alive =>
            /\ (IsSome(typing.start_time) /\ typing'.tag # "BeforeStart") =>
                   typing'.start_time = typing.start_time
            /\ (IsSome(typing.end_time) /\ typing'.tag # "BeforeStart") =>
                   typing'.end_time = typing.end_time
            /\ (typing.start_time = None /\ IsSome(typing'.start_time)) =>
                   /\ typing.tag = "BeforeStart" /\ typing'.tag = "Running"
                   /\ typing'.start_time = Some(now')
            /\ (typing.end_time = None /\ IsSome(typing'.end_time)) =>
                   /\ typing.tag = "Running" /\ typing'.tag = "Finish"
                   /\ typing'.end_time = Some(now')]_vars

\* C16 witness: a second run, started and finished at later readings of the
\* clock than the construction.
C16_Witness ==
    /\ typing.tag = "Finish"
    /\ typing.start_time = Some(1)
    /\ typing.end_time = Some(2)
    /\ typing.typed >= 1
    /\ ticks >= 1

----
\* Vocabulary of the properties of a line, stated on its raw text.

\* the length of the maximal prefix of raw made of whitespace
WhitespaceLen(raw) ==
    CHOOSE n \in 0..Len(raw) :
        /\ \A j \in 1..n : IsWhitespace(raw[j])
        /\ n = Len(raw) \/ ~IsWhitespace(raw[n + 1])

\* the maximal leading-whitespace prefix of raw
LeadingWhitespace(raw) == SubSeq(raw, 1, WhitespaceLen(raw))

\* the text of raw after its leading whitespace
AfterLeadingWhitespace(raw) == SubSeq(raw, WhitespaceLen(raw) + 1, Len(raw))

\* the characters an optional string holds: none when it is absent
Chars(o) == IF IsSome(o) THEN Unwrap(o) ELSE <<>>

\* C17 as claimed: of `current` present and is_entered(), exactly one holds
\* for a line built by Line::new and advanced by next().
C17_CurrentOrEnteredNotBoth ==
    IsSome(line_value.current) # IsEntered(line_value)

\* C17 amended: of `current` present and is_entered(), at least one holds; both
\* hold exactly for the line whose text after the leading whitespace is a
\* single character, before and after next().
C17_CurrentOrEntered ==
    /\ IsSome(line_value.current) \/ IsEntered(line_value)
    /\ (IsSome(line_value.current) /\ IsEntered(line_value)) <=>
           Len(AfterLeadingWhitespace(text)) = 1

\* C17 witness: an indented line of one character after next(): it reports
\* is_entered() and still holds the character as `current`.
C17_Witness ==
    /\ calls >= 1
    /\ IsSome(line_value.head_space)
    /\ line_value.current = Some("b")
    /\ IsEntered(line_value)

\* C18 as claimed: rest is None exactly when no character of the text comes
\* after `current`, and is never present but empty.
C18_RestIsNoneIffNothingFollows ==
    /\ line_value.rest = None <=> Len(AfterLeadingWhitespace(text)) <= calls + 1
    /\ line_value.rest # Some(<<>>)

\* C18 amended: rest is None exactly when the text after the leading
\* whitespace has at most one character or next() was called at least once
\* per character; it is present but empty exactly when next() has moved onto
\* the last of two or more characters; a present rest holds the characters
\* after `current`.
C18_RestIsNoneOrWhatFollows ==
    LET k == Len(AfterLeadingWhitespace(text))
    IN  /\ line_value.rest = None <=> (k <= 1 \/ calls >= k)
        /\ line_value.rest = Some(<<>>) <=> (k >= 2 /\ calls = k - 1)
        /\ IsSome(line_value.rest) =>
               Unwrap(line_value.rest) =
                   SubSeq(AfterLeadingWhitespace(text), calls + 2, k)

\* C18 witness: a line of three characters after two next() calls: `current`
\* is the last character and rest is present but empty.
C18_Witness ==
    /\ calls = 2
    /\ Len(AfterLeadingWhitespace(text)) = 3
    /\ line_value.current = Some("b")
    /\ line_value.rest = Some(<<>>)

\* C19: Line::new keeps the maximal leading-whitespace prefix of the raw text
\* as head_space (absent only when the prefix is empty), entered_text() is
\* that prefix, and of the text after it `current` is the first character and
\* rest the characters after it, both None when that text is empty.
C19_NewSplitsLeadingWhitespace ==
    calls = 0 =>
        LET head == LeadingWhitespace(text)
            tail == AfterLeadingWhitespace(text)
        IN  /\ line_value.head_space = IF head = <<>> THEN None ELSE Some(head)
            /\ EnteredText(line_value) = IF head = <<>> THEN None ELSE Some(head)
            /\ IF tail = <<>>
               THEN line_value.current = None /\ line_value.rest = None
               ELSE /\ line_value.current = Some(Head(tail))
                    /\ Chars(line_value.rest) = Tail(tail)

\* C20: for a line with k >= 1 characters after the leading whitespace, after
\* j < k calls of next() current_text() is character j + 1, entered_text()
\* is the leading whitespace followed by the first j characters and
\* rest_text() holds the k - j - 1 characters that remain; no call of next()
\* changes head_space or line_no.
C20_NextShiftsOneCharacter ==
    /\ [](LET head == LeadingWhitespace(text)
              tail == AfterLeadingWhitespace(text)
          IN  (Len(tail) >= 1 /\ calls < Len(tail)) =>
                  /\ CurrentText(line_value) = Some(tail[calls + 1])
                  /\ Chars(EnteredText(line_value)) = head \o SubSeq(tail, 1, calls)
                  /\ Chars(RestText(line_value)) = SubSeq(tail, calls + 2, Len(tail))
                  /\ Len(Chars(RestText(line_value))) = Len(tail) - calls - 1
                  /\ Chars(line_value.head_space) = head)
    /\ [][/\ line_value'.head_space = line_value.head_space
          /\ line_value'.line_no = line_value.line_no]_vars

\* C20 witness: an indented line of three characters after two next() calls.
C20_Witness ==
    /\ calls = 2
    /\ line_value.line_no = 2
    /\ line_value.head_space = Some(<<" ">>)
    /\ line_value.entered = Some(<<"a", "b">>)
    /\ line_value.current = Some("a")
    /\ RestText(line_value) = Some(<<>>)

----
\* The derived metrics.

\* the whole seconds a started run has lasted at the clock reading n, at
\* least 1
ElapsedSeconds(t, n) ==
    LET last == IF t.tag = "Finish" THEN Unwrap(t.end_time) ELSE n
    IN  IF last > Unwrap(t.start_time) THEN last - Unwrap(t.start_time) ELSE 1

\* C21: in Running and Finish wpm() is 12 times the number of whole times the
\* elapsed seconds (at least 1) go into typed + typo, which is
\* ((typed + typo) div s) * 60 div 5; in BeforeStart it is 0.  Running reads
\* the clock: the property holds for every reading from now on.
C21_WpmIsKeystrokesPerSecondTimesTwelve ==
    Alive =>
        \A n \in now..MaxNow :
            IF typing.tag = "BeforeStart"
            THEN TypingWpm(typing, n) = 0
            ELSE LET s == ElapsedSeconds(typing, n)
                     keys == typing.typed + typing.typo
                     q == CHOOSE k \in 0..keys : k * s <= keys /\ keys < (k + 1) * s
                 IN  /\ 5 * TypingWpm(typing, n) = 60 * q
                     /\ TypingWpm(typing, n) = 12 * q

\* C21 witness: three keystrokes in two seconds: one whole keystroke per
\* second, 12 words per minute.
C21_Witness ==
    /\ typing.tag = "Finish"
    /\ typing.typed + typing.typo = 3
    /\ typing.start_time = Some(0)
    /\ typing.end_time = Some(2)
    /\ TypingWpm(typing, now) = 12

\* C22: in Running and Finish acc() is the integer nearest to
\* 100 * typed / (typed + typo) (the upper one of two equally near), 0 when
\* there was no keystroke, 80 for typed = 4 and typo = 1; it is between 0 and
\* 100, and 0 in BeforeStart.
C22_AccIsRoundedPercentage ==
    Alive =>
        LET keys == typing.typed + typing.typo
            a == TypingAcc(typing)
        IN  /\ a \in 0..100
            /\ typing.tag = "BeforeStart" => a = 0
            /\ (typing.tag # "BeforeStart" /\ keys = 0) => a = 0
            /\ (typing.tag # "BeforeStart" /\ keys > 0) =>
                   /\ 2 * a * keys <= 200 * typing.typed + keys
                   /\ 200 * typing.typed + keys < 2 * (a + 1) * keys
            /\ StateAcc([typing EXCEPT !.typed = 4, !.typo = 1]) = 80

\* C22 witness: two matched keystrokes and one mismatch: 66.67 rounds to 67.
C22_Witness ==
    /\ typing.tag = "Running"
    /\ typing.typed = 2
    /\ typing.typo = 1
    /\ TypingAcc(typing) = 67

----
\* The selection of the duration.

\* the durations of the sequence s
Elements(s) == {s[i] : i \in 1..Len(s)}

\* the presets
Presets == {15, 30, 60, 120}

RECURSIVE NextTimes(_, _, _)
\* the duration selected after k calls of next_time from t
NextTimes(t, c, k) == IF k = 0 THEN t ELSE NextTimes(NextTime(t, c), c, k - 1)

RECURSIVE PrevTimes(_, _, _)
\* the duration selected after k calls of prev_time from t
PrevTimes(t, c, k) == IF k = 0 THEN t ELSE PrevTimes(PrevTime(t, c), c, k - 1)

\* C24: selectable_time() lists the presets and the custom duration in
\* ascending order without duplicates (4 entries when the custom duration is
\* a preset, 5 otherwise), and the selected duration is one of them.
C24_SelectableTimeIsSortedUnion ==
    LET times == SelectableTime(custom_time)
    IN  /\ Elements(times) = Presets \cup {custom_time}
        /\ \A i \in 1..(Len(times) - 1) : times[i] < times[i + 1]
        /\ Len(times) = IF custom_time \in Presets THEN 4 ELSE 5
        /\ time \in Elements(times)

\* C24 witness: a custom duration that is a preset, with another preset
\* selected.
C24_Witness ==
    /\ custom_time = 30
    /\ time = 120
    /\ SelectableTime(custom_time) = <<15, 30, 60, 120>>

\* C25: from the custom duration, as many next_time() calls as
\* selectable_time() has entries select every entry once and end on the
\* custom duration.
C25_NextTimeCyclesThroughAll ==
    LET times == SelectableTime(custom_time)
        n == Len(times)
    IN  /\ {NextTimes(custom_time, custom_time, k) : k \in 1..n} = Elements(times)
        /\ NextTimes(custom_time, custom_time, n) = custom_time

\* C26: prev_time() undoes next_time(), and from a custom duration that is no
\* preset successive prev_time() calls select 120, 60, 30, 15 and the custom
\* duration again.
C26_PrevTimeReversesNextTime ==
    /\ PrevTime(NextTime(time, custom_time), custom_time) = time
    /\ custom_time \notin Presets =>
           [k \in 1..5 |-> PrevTimes(custom_time, custom_time, k)] =
               <<120, 60, 30, 15, custom_time>>

----
\* C27: in Running on a blank line every key is accepted: the run moves to
\* the next line, or to Finish on the last line, and nothing else changes:
\* typed, typo and the lines (the following line included) stay as they are.
C27_BlankLineAcceptsAnyKey ==
    (Alive /\ typing.tag = "Running" /\ Blank(typing)) =>
        \A c \in Keys, n \in now..MaxNow :
            TypingInput(typing, c, n) =
                IF OnLastLine(typing)
                THEN [typing EXCEPT !.tag = "Finish", !.end_time = Some(n)]
                ELSE [typing EXCEPT !.current_index = typing.current_index + 1]

\* C27 witness: a run that went through two blank lines on two keys and
\* stands on the third line with nothing typed and nothing mistyped.
C27_Witness ==
    /\ typing.tag = "Running"
    /\ hist = "clean"
    /\ typing.current_index = 2
    /\ typing.lines[1].current = None
    /\ typing.lines[2].current = None
    /\ Expects(typing, "a")
    /\ typing.typed = 0
    /\ typing.typo = 0

\* C30: the state restart builds from Finish is, field by field, the state
\* Typing::new builds for the same text, duration and display_lines
\* (is_error = false included).
C30_RestartEqualsNew ==
    hist = "restarted" =>
        typing = TypingNew(text, time, typing.display_lines)

\* C29: a started run terminates: under a driver that keeps applying ticks,
\* Running leads to Finish whatever keystrokes come in between.
C29_RunningLeadsToFinish ==
    (typing.tag = "Running") ~> (typing.tag = "Finish")

\* A run with hits and misses that the ticks have ended: three ticks, the
\* remaining time at 0.
C29_Witness ==
    /\ Alive
    /\ typing.tag = "Finish"
    /\ ticks = 3
    /\ typing.remaining_time = 0
    /\ typing.typed > 0
    /\ typing.typo > 0

----
\* The loop of run_app

\* the series t is the series s with one value put at its end
Grown(s, t) == Len(t) = Len(s) + 1 /\ SubSeq(t, 1, Len(s)) = s

\* the second coordinates of the points of a plot after its first point
Plotted(plot) == [i \in 1..(Len(plot) - 1) |-> plot[i + 1][2]]

\* the step applies a tick: the sampler takes a sample
TickApplied == Len(progress'.wpm) > Len(progress.wpm)

\* C23: under the loop of run_app the two series of the sampler have the same
\* length and the plots are the origin point ((0,0) for wpm, (0,100) for acc)
\* followed by one point per sample; a step leaves the series as they are or
\* puts exactly one value at the end of each, and it does so only by a tick
\* applied to a Running run.
C23_SamplesFollowTicks ==
    /\ [](/\ Len(progress.wpm) = Len(progress.acc)
          /\ Len(WpmPlot(progress)) = Len(progress.wpm) + 1
          /\ Len(AccPlot(progress)) = Len(progress.acc) + 1
          /\ Head(WpmPlot(progress)) = <<0, 0>>
          /\ Head(AccPlot(progress)) = <<0, 100>>
          /\ Plotted(WpmPlot(progress)) = progress.wpm
          /\ Plotted(AccPlot(progress)) = progress.acc)
    /\ [][\/ progress' = progress
          \/ /\ Grown(progress.wpm, progress'.wpm)
             /\ Grown(progress.acc, progress'.acc)
             /\ typing.tag # "Finish"
             /\ typing'.tag \in {"Running", "Finish"}]_vars

\* A run of three seconds ended by its ticks, three samples taken.
C23_Witness ==
    /\ typing.tag = "Finish"
    /\ typing.remaining_time = 0
    /\ time = 3
    /\ Len(progress.wpm) = 3
    /\ Len(progress.acc) = 3

\* C28: every tick the loop applies to a run comes one second or more after
\* the previous applied tick and one second or more after the start of that
\* run, however long the program stood in BeforeStart.
C28_TickWaitsOneSecond ==
    [][TickApplied =>
           /\ now' >= last_tick + ONE_SEC
           /\ now' >= Unwrap(typing'.start_time) + ONE_SEC]_vars

\* C31: a run that has not been started yet, restarted ones included, finds
\* the sampler empty: the series hold no sample of a previous run, so the
\* plots and wpm_max of the new run come from its own ticks only.
C31_RestartedRunFindsNoSamples ==
    typing.tag = "BeforeStart" =>
        /\ progress = TypingProgressNew
        /\ WpmPlot(progress) = <<<<0, 0>>>>
        /\ AccPlot(progress) = <<<<0, 100>>>>
        /\ WpmMax(progress) = 0

\* C32: the window display_lines() returns holds the line being typed (the
\* line at current_index), whatever display_lines (1 or more) and whatever
\* line the run is on.
C32_WindowHoldsCurrentLine ==
    Alive =>
        \E i \in 1..Len(TypingDisplayLines(typing)) :
            /\ TypingDisplayLines(typing)[i].line_no = typing.current_index + 1
            /\ TypingDisplayLines(typing)[i] = Current(typing)

\* C33: under the loop of run_app, every character key pressed in BeforeStart
\* starts the run (run_app does not return, the run leaves BeforeStart with
\* its start_time at the reading of the clock), and the character the
\* document expects first is counted as the first typed character of the run,
\* whatever that character is.
C33_CharacterKeyStartsTheRun ==
    [][\A c \in {"a", " ", QUIT_COMMAND, RESTART_COMMAND, EXIT_COMMAND} :
           (typing.tag = "BeforeStart" /\ KeyIteration(Char(c), now')) =>
               /\ ~exited'
               /\ typing'.tag \in {"Running", "Finish"}
               /\ typing'.start_time = Some(now')
               /\ Expects(typing, c) =>
                      typing'.typed = 1 /\ typing'.typo = 0]_vars

====
